---- MODULE Spec2Model ----
(***************************************************************************)
(* Model of the Applio TTS inference HTTP facade (src/api/app.py).         *)
(*                                                                         *)
(* Strings are sequences of characters.  User text is a sequence of code   *)
(* points (integers), because the sanitizer is specified over code-point   *)
(* ranges; every other string (paths, file names, formats, voice names)    *)
(* is a sequence of one-character strings.  An Optional[str] is a sequence *)
(* of length at most one: <<>> is None and <<s>> is the string s.          *)
(***************************************************************************)
EXTENDS Integers, Sequences, FiniteSets, TLC

VARIABLES
    phase,        \* process lifecycle: "init", "running", "failed"
    voices_data,  \* the module global _voices_data (Optional catalog)
    source,       \* what the collaborator load_voices_data() would return now
    loadCount,    \* number of calls made to load_voices_data()
    firstLoad,    \* value returned by the first load_voices_data() call
    fs,           \* the filesystem: set of paths that exist
    now,          \* wall clock, in ticks of 1/TicksPerSecond second
    inflight,     \* the parsed request of the current HTTP exchange
    response,     \* the outcome of the current HTTP exchange
    calls,        \* run_tts_script invocations made for the current exchange
    fsBefore,     \* the filesystem when the current handler started
    handled,      \* number of HTTP exchanges completed
    ct_in,        \* clean_text harness: the input text
    ct_out,       \* clean_text harness: Optional output of clean_text
    earlier       \* two-request runs: Optional record of the first exchange

vars == <<phase, voices_data, source, loadCount, firstLoad, fs, now, inflight,
          response, calls, fsBefore, handled, ct_in, ct_out, earlier>>

-----------------------------------------------------------------------------
(* Bounds *)

MaxTextLen == 5
MaxNow == 2
MaxHandled == 1

-----------------------------------------------------------------------------
(* Generic string helpers (Python str semantics) *)

None == <<>>

Some(x) == <<x>>

\* Python truthiness of an Optional[str]: None and "" are falsy
Truthy(opt) == opt # None /\ opt[1] # <<>>

StartsWith(s, pre) ==
    /\ Len(pre) <= Len(s)
    /\ SubSeq(s, 1, Len(pre)) = pre

EndsWith(s, suf) ==
    /\ Len(suf) <= Len(s)
    /\ SubSeq(s, Len(s) - Len(suf) + 1, Len(s)) = suf

\* Python "sub in s"
Contains(s, sub) ==
    \E i \in 1..(Len(s) - Len(sub) + 1) : SubSeq(s, i, i + Len(sub) - 1) = sub

RECURSIVE Filter(_, _)
Filter(s, keep) ==
    IF s = <<>> THEN <<>>
    ELSE IF s[1] \in keep THEN <<s[1]>> \o Filter(Tail(s), keep)
    ELSE Filter(Tail(s), keep)

-----------------------------------------------------------------------------
(* clean_text: src/api/app.py lines 77-86 *)

NUL == 0
TAB == 9
LF == 10
CR == 13
SPACE == 32

\* the character class of the re.sub pattern [\x00-\x08\x0B\x0C\x0E-\x1F\x7F]
ControlClass == (0..8) \cup {11, 12} \cup (14..31) \cup {127}

\* characters str.strip() removes (str.isspace) among code points below 256
Whitespace == (9..13) \cup (28..32) \cup {133, 160}

\* re.sub(pattern, '', text)
RemoveControl(text) == Filter(text, (0..255) \ ControlClass)

\* str.replace('\r\n', '\n'): leftmost non-overlapping occurrences
RECURSIVE ReplaceCRLF(_)
ReplaceCRLF(s) ==
    IF s = <<>> THEN <<>>
    ELSE IF Len(s) >= 2 /\ s[1] = CR /\ s[2] = LF
         THEN <<LF>> \o ReplaceCRLF(SubSeq(s, 3, Len(s)))
    ELSE <<s[1]>> \o ReplaceCRLF(Tail(s))

\* str.replace('\r', '\n')
ReplaceCR(s) == [i \in 1..Len(s) |-> IF s[i] = CR THEN LF ELSE s[i]]

RECURSIVE LStrip(_)
LStrip(s) ==
    IF s # <<>> /\ s[1] \in Whitespace THEN LStrip(Tail(s)) ELSE s

RECURSIVE RStrip(_)
RStrip(s) ==
    IF s # <<>> /\ s[Len(s)] \in Whitespace
    THEN RStrip(SubSeq(s, 1, Len(s) - 1)) ELSE s

\* str.strip()
Strip(s) == RStrip(LStrip(s))

\* variant: bare CRs are replaced before the CRLF pairs
clean_text_cr_first(text) == Strip(ReplaceCRLF(ReplaceCR(RemoveControl(text))))

clean_text(text) == Strip(ReplaceCR(ReplaceCRLF(RemoveControl(text))))

-----------------------------------------------------------------------------
(* Harness applying clean_text to every bounded input *)

TextAlphabet == {NUL, TAB, LF, CR, SPACE, 97}

RECURSIVE SeqsUpTo(_, _)
SeqsUpTo(S, n) ==
    IF n = 0 THEN {<<>>}
    ELSE LET shorter == SeqsUpTo(S, n - 1)
         IN shorter \cup {Append(s, c) : s \in {t \in shorter : Len(t) = n - 1}, c \in S}

-----------------------------------------------------------------------------
(* Case conversion: str.lower() and str.upper() over ASCII letters *)

LowerLetters == <<"a","b","c","d","e","f","g","h","i","j","k","l","m",
                  "n","o","p","q","r","s","t","u","v","w","x","y","z">>

UpperLetters == <<"A","B","C","D","E","F","G","H","I","J","K","L","M",
                  "N","O","P","Q","R","S","T","U","V","W","X","Y","Z">>

LowerChar(c) ==
    IF \E i \in 1..26 : UpperLetters[i] = c
    THEN LowerLetters[CHOOSE i \in 1..26 : UpperLetters[i] = c]
    ELSE c

UpperChar(c) ==
    IF \E i \in 1..26 : LowerLetters[i] = c
    THEN UpperLetters[CHOOSE i \in 1..26 : LowerLetters[i] = c]
    ELSE c

Lower(s) == [i \in 1..Len(s) |-> LowerChar(s[i])]

Upper(s) == [i \in 1..Len(s) |-> UpperChar(s[i])]

-----------------------------------------------------------------------------
(* Paths: os.path.join, os.path.basename, timestamps *)

SEP == "/"

\* OUTPUT_DIR = Path(now_dir) / "assets" / "audios"  (the install prefix is elided)
OUTPUT_DIR == <<"/", "a", "u", "d", "i", "o", "s">>

\* os.path.join(a, b): an absolute b discards a
PathJoin(a, b) ==
    IF StartsWith(b, <<SEP>>) THEN b
    ELSE IF a = <<>> \/ EndsWith(a, <<SEP>>) THEN a \o b
    ELSE a \o <<SEP>> \o b

\* os.path.basename(p): what follows the last separator
RECURSIVE Basename(_)
Basename(p) ==
    IF \E i \in 1..Len(p) : p[i] = SEP
    THEN Basename(SubSeq(p, (CHOOSE i \in 1..Len(p) : p[i] = SEP) + 1, Len(p)))
    ELSE p

TicksPerSecond == 2

Digits == <<"0", "1", "2", "3", "4", "5", "6", "7", "8", "9">>

\* the %S field: two decimal digits
TwoDigits(n) == <<Digits[((n \div 10) % 10) + 1], Digits[(n % 10) + 1]>>

\* datetime.now().strftime("%Y%m%d_%H%M%S"): one-second resolution; the clock
\* stays within one minute, so the fields before %S are fixed
Strftime(t) ==
    <<"2","0","2","6","0","1","0","1","_","0","0","0","0">>
        \o TwoDigits(t \div TicksPerSecond)

TtsPrefix == <<"t","t","s","_","o","u","t","p","u","t","_">>

RvcPrefix == <<"t","t","s","_","r","v","c","_","o","u","t","p","u","t","_">>

DotWav == <<".", "w", "a", "v">>

\* the tuple given to str.endswith at app.py line 561
KnownExtensions ==
    {DotWav, <<".","m","p","3">>, <<".","f","l","a","c">>,
     <<".","o","g","g">>, <<".","m","4","a">>}

\* f"tts_output_{timestamp}.wav" joined to OUTPUT_DIR
TtsOutputPath(timestamp) ==
    PathJoin(OUTPUT_DIR, TtsPrefix \o timestamp \o DotWav)

\* variant: the default final name carries no timestamp
RvcOutputFilename_untimed(output_filename, export_format, timestamp) ==
    IF Truthy(output_filename)
    THEN IF \E e \in KnownExtensions : EndsWith(output_filename[1], e)
         THEN output_filename[1]
         ELSE output_filename[1] \o <<".">> \o Lower(export_format)
    ELSE RvcPrefix \o <<".">> \o Lower(export_format)

\* the final file name: caller-supplied (extension appended when it has none
\* of the known ones) or timestamp-derived
RvcOutputFilename(output_filename, export_format, timestamp) ==
    IF Truthy(output_filename)
    THEN IF \E e \in KnownExtensions : EndsWith(output_filename[1], e)
         THEN output_filename[1]
         ELSE output_filename[1] \o <<".">> \o Lower(export_format)
    ELSE RvcPrefix \o timestamp \o <<".">> \o Lower(export_format)

RvcOutputPath(output_filename, export_format, timestamp) ==
    PathJoin(OUTPUT_DIR, RvcOutputFilename(output_filename, export_format, timestamp))

-----------------------------------------------------------------------------
(* Voice catalog: src/api/app.py lines 39-61 and 272-316 *)

VoiceFra == [ShortName |-> <<"p","t","-","B","R","-","F","r","a">>,
             Name |-> <<"F","r","a">>,
             Locale |-> <<"p","t","-","B","R">>,
             Gender |-> <<"F">>]

VoiceGuy == [ShortName |-> <<"e","n","-","U","S","-","G","u","y">>,
             Name |-> <<"G","u","y">>,
             Locale |-> <<"e","n","-","U","S">>,
             Gender |-> <<"M">>]

VoiceEve == [ShortName |-> <<"f","r","-","F","R","-","E","v","e">>,
             Name |-> <<"E","v","e">>,
             Locale |-> <<"f","r","-","F","R">>,
             Gender |-> <<"F">>]

\* the values load_voices_data() can produce; None stands for a call that raises
Sources == {None, Some(<<>>), Some(<<VoiceFra, VoiceGuy, VoiceEve>>)}

\* dict.get(key, "")
Get(voice, key) == IF key \in DOMAIN voice THEN voice[key] ELSE <<>>

\* variant: "if not _voices_data" instead of "if _voices_data is None"
load_tts_voices_falsy(data, src) ==
    IF data = None \/ data[1] = <<>>
    THEN IF src = None
         THEN [raised |-> TRUE, data |-> data, value |-> <<>>, loads |-> 1]
         ELSE [raised |-> FALSE, data |-> src, value |-> src[1], loads |-> 1]
    ELSE [raised |-> FALSE, data |-> data, value |-> data[1], loads |-> 0]

\* load_tts_voices(): fetch when the global is None, else return the global.
\* data is the global before the call, src the collaborator's current answer.
load_tts_voices(data, src) ==
    IF data = None
    THEN IF src = None
         THEN [raised |-> TRUE, data |-> data, value |-> <<>>, loads |-> 1]
         ELSE [raised |-> FALSE, data |-> src, value |-> src[1], loads |-> 1]
    ELSE [raised |-> FALSE, data |-> data, value |-> data[1], loads |-> 0]

\* str.split("-")[0]: what precedes the first "-"
RECURSIVE BeforeDash(_)
BeforeDash(s) ==
    IF s = <<>> \/ s[1] = "-" THEN <<>> ELSE <<s[1]>> \o BeforeDash(Tail(s))

VoiceInfo(voice) ==
    [short_name |-> Get(voice, "ShortName"),
     name |-> Get(voice, "Name"),
     locale |-> Get(voice, "Locale"),
     gender |-> Get(voice, "Gender"),
     language |-> IF Contains(Get(voice, "Locale"), <<"-">>)
                  THEN BeforeDash(Get(voice, "Locale"))
                  ELSE Get(voice, "Locale")]

\* the list comprehension of list_voices
VoiceMatches(voice, language) ==
    Contains(Lower(Get(voice, "ShortName")), Lower(language))

RECURSIVE FilterVoices(_, _)
FilterVoices(voices, language) ==
    IF voices = <<>> THEN <<>>
    ELSE IF VoiceMatches(voices[1], language)
         THEN <<voices[1]>> \o FilterVoices(Tail(voices), language)
    ELSE FilterVoices(Tail(voices), language)

\* the body of list_voices once the catalog is read
list_voices(voices, language) ==
    LET filtered_voices == IF Truthy(language)
                           THEN FilterVoices(voices, language[1])
                           ELSE voices
        voices_list == [i \in 1..Len(filtered_voices) |-> VoiceInfo(filtered_voices[i])]
    IN [raised |-> "none",
        status |-> 200,
        success |-> TRUE,
        voices |-> voices_list,
        total |-> Len(voices_list),
        language_filter |-> language]

LanguageFilters ==
    {None, Some(<<>>), Some(<<"f","r">>), Some(<<"P","T">>),
     Some(<<"e","n","-","u","s">>), Some(<<"z","z">>)}

-----------------------------------------------------------------------------
(* Responses *)

\* raise HTTPException(status_code, detail): the reason names the f-string,
\* arg the value it interpolates
HTTPException(status_code, reason, arg) ==
    [raised |-> "HTTPException",
     status |-> status_code,
     success |-> FALSE,
     detail |-> [reason |-> reason, arg |-> arg],
     text |-> <<>>,
     index_path |-> None,
     output_file |-> None,
     output_path |-> None,
     base64 |-> None,
     format |-> None]

\* any exception that is not an HTTPException
Exception(reason) ==
    [HTTPException(0, reason, <<>>) EXCEPT !.raised = "Exception"]

\* TTSInferenceResponse(success=True, ...) as built at app.py lines 656-669;
\* output_file is the local variable (Optional path) at that point
TTSInferenceResponse(req, index_path, output_file, base64_audio) ==
    [raised |-> "none",
     status |-> 200,
     success |-> TRUE,
     detail |-> [reason |-> "ok", arg |-> <<>>],
     text |-> req.text,
     index_path |-> index_path,
     output_file |-> IF output_file # None THEN Some(Basename(output_file[1])) ELSE None,
     output_path |-> IF output_file # None /\ ~req.return_base64 THEN output_file ELSE None,
     base64 |-> base64_audio,
     format |-> IF req.return_base64 THEN Some(Upper(req.export_format)) ELSE None]

\* base64.b64encode(audio_bytes).decode('utf-8'): a string, never None
\* (file contents are not modelled)
B64Payload == Some(<<"b", "6", "4">>)

-----------------------------------------------------------------------------
(* Collaborators of the handler *)

ModelPath == <<"/", "m", ".", "p", "t", "h">>

MissingModelPath == <<"/", "x", ".", "p", "t", "h">>

IndexPath == <<"/", "m", ".", "i", "d", "x">>

MissingIndexPath == <<"/", "x", ".", "i", "d", "x">>

\* a path other than output_rvc_path that the pipeline may report as its output
StrayPath == <<"/", "t", "m", "p", "/", "o", ".", "w", "a", "v">>

\* One way the environment can answer during one request:
\*   match         what match_index(model_path) returns
\*   pipe          whether run_tts_script raises or returns
\*   reported      which path run_tts_script returns as output_file
\*   wroteTts      whether run_tts_script left the intermediate TTS file
\*   wroteOut      whether run_tts_script left the file it reports
\*   readFails     whether open()/read() of the final file raises
\*   rmFinalFails  whether os.remove(output_file) raises
\*   rmTtsFails    whether os.remove(tts_output_path) raises
Oracles ==
    [match : {None, Some(IndexPath), Some(MissingIndexPath)},
     pipe : {"raise", "return"},
     reported : {"rvc", "stray"},
     wroteTts : BOOLEAN,
     wroteOut : BOOLEAN,
     readFails : BOOLEAN,
     rmFinalFails : BOOLEAN,
     rmTtsFails : BOOLEAN]

\* run_tts_script(...): returns (message, output_file) or raises, and may
\* leave the intermediate and the reported file on disk
run_tts_script(args, files, o) ==
    LET tts_written == IF o.wroteTts THEN {args.output_tts_path} ELSE {}
        output_file == IF o.reported = "rvc" THEN args.output_rvc_path
                       ELSE StrayPath
    IN IF o.pipe = "raise"
       THEN [raised |-> TRUE, output_file |-> <<>>, fs |-> files \cup tts_written]
       ELSE [raised |-> FALSE,
             output_file |-> output_file,
             fs |-> files \cup tts_written
                      \cup (IF o.wroteOut THEN {output_file} ELSE {})]

-----------------------------------------------------------------------------
(* tts_inference: src/api/app.py lines 499-680 *)

\* the keyword arguments of the run_tts_script call, lines 584-609
PipelineArgs(req, index_path, tts_output_path, rvc_output_path) ==
    [tts_text |-> req.text,
     tts_voice |-> req.tts_voice,
     tts_rate |-> req.tts_rate,
     pitch |-> req.pitch,
     index_rate |-> req.index_rate,
     volume_envelope |-> req.volume_envelope,
     protect |-> req.protect,
     f0_method |-> req.f0_method,
     output_tts_path |-> tts_output_path,
     output_rvc_path |-> rvc_output_path,
     pth_path |-> req.model_path,
     index_path |-> IF Truthy(index_path) THEN index_path[1] ELSE <<>>,
     split_audio |-> req.split_audio,
     f0_autotune |-> req.f0_autotune,
     proposed_pitch |-> req.proposed_pitch,
     clean_audio |-> req.clean_audio,
     export_format |-> req.export_format,
     embedder_model |-> req.embedder_model,
     embedder_model_custom |-> req.embedder_model_custom,
     sid |-> req.sid]

\* lines 616-669: existence check, optional base64 encoding with deletion of
\* the final file, deletion of the intermediate file, response.  tts_cleanup
\* tells what became of lines 650-654: "skipped" when control never reached
\* them, "absent" when os.path.exists(tts_output_path) was false, "failed"
\* when os.remove raised, "removed" otherwise.
PostProcess(req, index_path, output_file, tts_output_path, files, o) ==
    IF output_file \notin files
    THEN [response |-> HTTPException(500, "NotCreated", <<>>), fs |-> files,
          tts_cleanup |-> "skipped"]
    ELSE IF req.return_base64 /\ o.readFails
    THEN [response |-> Exception("ReadFailed"), fs |-> files,
          tts_cleanup |-> "skipped"]
    ELSE
      LET removed == req.return_base64 /\ ~o.rmFinalFails
          out == IF removed THEN None ELSE Some(output_file)
          files1 == IF removed THEN files \ {output_file} ELSE files
          files2 == IF tts_output_path \in files1 /\ ~o.rmTtsFails
                    THEN files1 \ {tts_output_path}
                    ELSE files1
          base64_audio == IF req.return_base64 THEN B64Payload ELSE None
      IN [response |-> TTSInferenceResponse(req, index_path, out, base64_audio),
          fs |-> files2,
          tts_cleanup |-> IF tts_output_path \notin files1 THEN "absent"
                          ELSE IF o.rmTtsFails THEN "failed"
                          ELSE "removed"]

\* lines 549-614: file names, the pipeline call inside its own try/except,
\* then PostProcess.  Each entry of calls records one run_tts_script call:
\* the timestamp of the request, the call's arguments, whether it raised, the
\* path it returned, whether that path existed when it returned, and what
\* became of the deletion of the intermediate file.
Synthesize(req, index_path, files, t, o) ==
    LET timestamp == Strftime(t)
        tts_output_path == TtsOutputPath(timestamp)
        rvc_output_path == RvcOutputPath(req.output_filename, req.export_format, timestamp)
        args == PipelineArgs(req, index_path, tts_output_path, rvc_output_path)
        run == run_tts_script(args, files, o)
        Call(tts_cleanup) ==
            [timestamp |-> timestamp,
             args |-> args,
             raised |-> run.raised,
             output_file |-> run.output_file,
             output_exists |-> ~run.raised /\ run.output_file \in run.fs,
             tts_cleanup |-> tts_cleanup]
    IN IF run.raised
       THEN [response |-> HTTPException(500, "SynthesisFailed", <<>>),
             fs |-> run.fs,
             calls |-> <<Call("skipped")>>]
       ELSE LET post == PostProcess(req, index_path, run.output_file,
                                    tts_output_path, run.fs, o)
            IN [response |-> post.response, fs |-> post.fs,
                calls |-> <<Call(post.tts_cleanup)>>]

\* variant: only an empty model_path is rejected
ModelMissing_empty_only(req, files) == req.model_path = <<>>

\* line 517: not os.path.exists(request.model_path)
ModelMissing(req, files) == req.model_path \notin files

\* lines 524-525: the index path after auto-detection
ResolvedIndex(req, o) ==
    IF ~Truthy(req.index_path) THEN o.match ELSE req.index_path

\* variant: without the existence check of line 527
IndexMissing_skipped(index_path, files) == FALSE

\* line 527: request.index_path and not os.path.exists(request.index_path)
IndexMissing(index_path, files) ==
    Truthy(index_path) /\ index_path[1] \notin files

\* line 536: tts_voice in [v.get("ShortName", "") for v in voices_data]
VoiceKnown(tts_voice, voices) ==
    \E i \in 1..Len(voices) : Get(voices[i], "ShortName") = tts_voice

\* variant: "embedder_model_custom is None" instead of "not embedder_model_custom"
EmbedderInvalid_none_only(req) ==
    req.embedder_model = "custom" /\ req.embedder_model_custom = None

\* line 543
EmbedderInvalid(req) ==
    req.embedder_model = "custom" /\ ~Truthy(req.embedder_model_custom)

\* variant: without the "except HTTPException: raise" clause
Reraise_all(outcome) ==
    IF outcome.raised # "none"
    THEN HTTPException(500, "Unexpected", <<>>)
    ELSE outcome

\* lines 671-680: an HTTPException is re-raised as it is, any other
\* exception becomes HTTP 500
Reraise(outcome) ==
    IF outcome.raised = "Exception"
    THEN HTTPException(500, "Unexpected", <<>>)
    ELSE outcome

\* the whole handler.  files: the filesystem; data: the global _voices_data;
\* src: the loader's current answer; t: the clock; o: the environment's answers
tts_inference(req, files, data, src, t, o) ==
    LET index_path == ResolvedIndex(req, o)
        lv == load_tts_voices(data, src)
        Stop(outcome, d, n) ==
            [response |-> Reraise(outcome), fs |-> files, calls |-> <<>>,
             data |-> d, loads |-> n]
    IN IF ModelMissing(req, files)
       THEN Stop(HTTPException(404, "ModelNotFound", req.model_path), data, 0)
       ELSE IF IndexMissing(index_path, files)
       THEN Stop(HTTPException(404, "IndexNotFound", index_path[1]), data, 0)
       ELSE IF lv.raised
       THEN Stop(Exception("LoadFailed"), lv.data, lv.loads)
       ELSE IF ~VoiceKnown(req.tts_voice, lv.value)
       THEN Stop(HTTPException(404, "VoiceNotFound", req.tts_voice), lv.data, lv.loads)
       ELSE IF EmbedderInvalid(req)
       THEN Stop(HTTPException(400, "EmbedderCustomRequired", <<>>), lv.data, lv.loads)
       ELSE LET syn == Synthesize(req, index_path, files, t, o)
            IN [response |-> Reraise(syn.response), fs |-> syn.fs,
                calls |-> syn.calls, data |-> lv.data, loads |-> lv.loads]

-----------------------------------------------------------------------------
(* tts_generate_simple: src/api/app.py lines 424-496 *)

valid_formats == {<<"W","A","V">>, <<"M","P","3">>, <<"F","L","A","C">>,
                  <<"O","G","G">>, <<"M","4","A">>}

\* variant: return_base64 copied from the simplified request
FullRequest_keeps_flag(request, cleaned_text, output_format) ==
    [text |-> cleaned_text,
     tts_voice |-> request.tts_voice,
     model_path |-> request.model_path,
     index_path |-> request.index_path,
     tts_rate |-> request.tts_rate,
     pitch |-> 0,
     index_rate |-> 75,
     volume_envelope |-> 100,
     protect |-> 50,
     f0_method |-> "rmvpe",
     split_audio |-> FALSE,
     f0_autotune |-> FALSE,
     proposed_pitch |-> FALSE,
     clean_audio |-> FALSE,
     export_format |-> output_format,
     embedder_model |-> "contentvec",
     embedder_model_custom |-> None,
     sid |-> 0,
     return_base64 |-> request.return_base64,
     output_filename |-> None]

\* TTSInferenceRequest(...) as constructed at lines 470-494
FullRequest(request, cleaned_text, output_format) ==
    [text |-> cleaned_text,
     tts_voice |-> request.tts_voice,
     model_path |-> request.model_path,
     index_path |-> request.index_path,
     tts_rate |-> request.tts_rate,
     pitch |-> 0,
     index_rate |-> 75,
     volume_envelope |-> 100,
     protect |-> 50,
     f0_method |-> "rmvpe",
     split_audio |-> FALSE,
     f0_autotune |-> FALSE,
     proposed_pitch |-> FALSE,
     clean_audio |-> FALSE,
     export_format |-> output_format,
     embedder_model |-> "contentvec",
     embedder_model_custom |-> None,
     sid |-> 0,
     return_base64 |-> TRUE,
     output_filename |-> None]

tts_generate_simple(request, files, data, src, t, o) ==
    LET cleaned_text == clean_text(request.text)
        output_format == Upper(request.output_format)
        Stop(resp) ==
            [response |-> resp, fs |-> files, calls |-> <<>>, data |-> data, loads |-> 0]
    IN IF cleaned_text = <<>>
       THEN Stop(HTTPException(400, "EmptyText", <<>>))
       ELSE IF output_format \notin valid_formats
       THEN Stop(HTTPException(400, "InvalidFormat", output_format))
       ELSE tts_inference(FullRequest(request, cleaned_text, output_format),
                          files, data, src, t, o)

-----------------------------------------------------------------------------
(* Request bodies as parsed by the framework (pydantic models, lines 89-139) *)

TextHi == <<72, 105>>

\* passes min_length=1 and is empty once cleaned
TextBlank == <<SPACE>>

TextDirty == <<97, CR, NUL, LF, 98>>

KnownVoice == VoiceGuy.ShortName

UnknownVoice == <<"n", "o", "p", "e">>

EmbedderPath == <<"/", "e", ".", "p", "t">>

FormatWAV == <<"W", "A", "V">>

FormatOgg == <<"o", "g", "g">>

FormatAAC == <<"A", "A", "C">>

\* the field defaults of TTSInferenceRequest, lines 115-135
DefaultTuning ==
    [tts_rate |-> 0, pitch |-> 0, index_rate |-> 75, volume_envelope |-> 100,
     protect |-> 50, f0_method |-> "rmvpe", split_audio |-> FALSE,
     f0_autotune |-> FALSE, proposed_pitch |-> FALSE, clean_audio |-> FALSE,
     sid |-> 0]

OtherTuning ==
    [tts_rate |-> 50, pitch |-> 12, index_rate |-> 20, volume_envelope |-> 30,
     protect |-> 10, f0_method |-> "crepe", split_audio |-> TRUE,
     f0_autotune |-> TRUE, proposed_pitch |-> TRUE, clean_audio |-> TRUE,
     sid |-> 1]

\* caller-supplied output_filename values: none, without and with a known
\* extension, with a parent-directory segment, absolute, and the names of
\* the intermediate file of each second
OutputFilenames ==
    {None, Some(<<"m", "y">>), Some(<<"m", "y", ".", "w", "a", "v">>),
     Some(<<".", ".", "/", "u", "p", ".", "w", "a", "v">>),
     Some(<<"/", "a", "b", "s", ".", "w", "a", "v">>)}
        \cup {Some(TtsPrefix \o Strftime(t) \o DotWav) : t \in 0..MaxNow}

InferenceRequest(text, voice, model, index, tuning, format, emb, custom, b64, name) ==
    [text |-> text,
     tts_voice |-> voice,
     model_path |-> model,
     index_path |-> index,
     tts_rate |-> tuning.tts_rate,
     pitch |-> tuning.pitch,
     index_rate |-> tuning.index_rate,
     volume_envelope |-> tuning.volume_envelope,
     protect |-> tuning.protect,
     f0_method |-> tuning.f0_method,
     split_audio |-> tuning.split_audio,
     f0_autotune |-> tuning.f0_autotune,
     proposed_pitch |-> tuning.proposed_pitch,
     clean_audio |-> tuning.clean_audio,
     export_format |-> format,
     embedder_model |-> emb,
     embedder_model_custom |-> custom,
     sid |-> tuning.sid,
     return_base64 |-> b64,
     output_filename |-> name]

IndexInputs == {None, Some(<<>>), Some(IndexPath), Some(MissingIndexPath)}

EmbedderInputs ==
    {<<"contentvec", None>>, <<"custom", None>>, <<"custom", Some(<<>>)>>,
     <<"custom", Some(EmbedderPath)>>}

\* /tts/inference bodies: every combination of the fields the pre-synthesis
\* checks read, every combination of the fields that shape the output, and
\* every combination of text and tuning, the other fields being nominal
InferenceBodies ==
    {InferenceRequest(TextHi, voice, model, index, DefaultTuning, FormatWAV,
                      e[1], e[2], FALSE, None) :
        voice \in {KnownVoice, UnknownVoice},
        model \in {ModelPath, MissingModelPath},
        index \in IndexInputs,
        e \in EmbedderInputs}
    \cup
    {InferenceRequest(TextHi, KnownVoice, ModelPath, None, DefaultTuning, format,
                      "contentvec", None, b64, name) :
        format \in {FormatWAV, FormatOgg, FormatAAC},
        b64 \in BOOLEAN,
        name \in OutputFilenames}
    \cup
    {InferenceRequest(text, KnownVoice, ModelPath, None, tuning, FormatWAV,
                      "contentvec", None, FALSE, None) :
        text \in {TextHi, TextBlank, TextDirty},
        tuning \in {DefaultTuning, OtherTuning}}

\* /tts/generate bodies (SimpleTTSRequest)
GenerateBodies ==
    {[text |-> text, tts_voice |-> KnownVoice, model_path |-> model,
      index_path |-> None, tts_rate |-> 0, return_base64 |-> b64,
      output_format |-> format] :
        text \in {TextHi, TextBlank, TextDirty},
        model \in {ModelPath, MissingModelPath},
        b64 \in BOOLEAN,
        format \in {<<"O", "G", "G">>, FormatOgg, FormatAAC}}
    \cup
    {[text |-> TextHi, tts_voice |-> voice, model_path |-> ModelPath,
      index_path |-> index, tts_rate |-> rate, return_base64 |-> TRUE,
      output_format |-> <<"O", "G", "G">>] :
        voice \in {KnownVoice, UnknownVoice},
        index \in IndexInputs,
        rate \in {0, 50}}

\* the environment's answers, without the combinations that differ only in
\* an answer nobody asks for
CanonicalOracles ==
    {o \in Oracles :
        /\ o.pipe = "raise" =>
              /\ o.reported = "rvc"
              /\ ~o.wroteOut /\ ~o.readFails /\ ~o.rmFinalFails /\ ~o.rmTtsFails
        /\ o.readFails => ~o.rmFinalFails /\ ~o.rmTtsFails}

\* answers the handling of req can ask for
Asked(req, o) ==
    /\ Truthy(req.index_path) => o.match = None
    /\ ~req.return_base64 => ~o.readFails /\ ~o.rmFinalFails

-----------------------------------------------------------------------------
(* The server process *)

Idle == [endpoint |-> "none", stage |-> "idle"]

NoResponse == [raised |-> "none", status |-> 0]

Init ==
    /\ phase = "init"
    /\ voices_data = None
    /\ source \in Sources
    /\ loadCount = 0
    /\ firstLoad = None
    /\ fs = {ModelPath, IndexPath}
    /\ now = 0
    /\ inflight = Idle
    /\ response = NoResponse
    /\ calls = <<>>
    /\ fsBefore = {ModelPath, IndexPath}
    /\ handled = 0
    /\ ct_in = <<>>
    /\ ct_out = None
    /\ earlier = None

\* bookkeeping shared by every action that calls load_tts_voices
Loaded(lv) ==
    /\ voices_data' = lv.data
    /\ loadCount' = loadCount + lv.loads
    /\ firstLoad' = IF loadCount = 0 /\ lv.loads > 0 THEN source ELSE firstLoad

\* lifespan (lines 51-61): the catalog is loaded before any request is
\* served; a loader failure aborts the start-up
Startup ==
    /\ phase = "init"
    /\ LET lv == load_tts_voices(voices_data, source)
       IN /\ Loaded(lv)
          /\ phase' = IF lv.raised THEN "failed" ELSE "running"
    /\ UNCHANGED <<source, fs, now, inflight, response, calls, fsBefore, handled,
                   ct_in, ct_out, earlier>>

\* the collaborator's data changes under the running process
SourceChanges ==
    /\ phase = "running"
    /\ inflight.stage = "idle"
    /\ \E s \in Sources \ {source} : source' = s
    /\ UNCHANGED <<phase, voices_data, loadCount, firstLoad, fs, now, inflight,
                   response, calls, fsBefore, handled, ct_in, ct_out, earlier>>

Tick ==
    /\ phase = "running"
    /\ inflight.stage = "idle"
    /\ now < MaxNow
    /\ now' = now + 1
    /\ UNCHANGED <<phase, voices_data, source, loadCount, firstLoad, fs, inflight,
                   response, calls, fsBefore, handled, ct_in, ct_out, earlier>>

Receive(endpoint, body) ==
    /\ phase = "running"
    /\ inflight.stage = "idle"
    /\ handled < MaxHandled
    /\ inflight' = [endpoint |-> endpoint, stage |-> "received", body |-> body]
    /\ UNCHANGED <<phase, voices_data, source, loadCount, firstLoad, fs, now,
                   response, calls, fsBefore, handled, ct_in, ct_out, earlier>>

ReceiveInference == \E body \in InferenceBodies : Receive("inference", body)

ReceiveGenerate == \E body \in GenerateBodies : Receive("generate", body)

\* completes the exchange with the outcome r of a synthesis handler
Complete(r) ==
    /\ Loaded(r)
    /\ response' = r.response
    /\ fs' = r.fs
    /\ calls' = r.calls
    /\ fsBefore' = fs
    /\ handled' = handled + 1
    /\ inflight' = [inflight EXCEPT !.stage = "done"]
    /\ UNCHANGED <<phase, source, now, ct_in, ct_out, earlier>>

\* POST /tts/inference
HandleInference ==
    /\ inflight.stage = "received"
    /\ inflight.endpoint = "inference"
    /\ \E o \in CanonicalOracles :
          /\ Asked(inflight.body, o)
          /\ Complete(tts_inference(inflight.body, fs, voices_data, source, now, o))

\* POST /tts/generate
HandleGenerate ==
    /\ inflight.stage = "received"
    /\ inflight.endpoint = "generate"
    /\ \E o \in CanonicalOracles :
          /\ Truthy(inflight.body.index_path) => o.match = None
          /\ Complete(tts_generate_simple(inflight.body, fs, voices_data, source, now, o))

\* GET /voices (lines 272-316)
ListVoices ==
    /\ phase = "running"
    /\ inflight.stage = "idle"
    /\ handled < MaxHandled
    /\ \E language \in LanguageFilters :
          LET lv == load_tts_voices(voices_data, source)
          IN /\ Loaded(lv)
             /\ inflight' = [endpoint |-> "voices", stage |-> "done",
                             body |-> [language |-> language]]
             /\ response' = IF lv.raised
                            THEN HTTPException(500, "ListFailed", <<>>)
                            ELSE list_voices(lv.value, language)
    /\ calls' = <<>>
    /\ fsBefore' = fs
    /\ handled' = handled + 1
    /\ UNCHANGED <<phase, source, fs, now, ct_in, ct_out, earlier>>

\* the response has been sent
Close ==
    /\ inflight.stage = "done"
    /\ inflight' = Idle
    /\ response' = NoResponse
    /\ calls' = <<>>
    /\ fsBefore' = fs
    /\ UNCHANGED <<phase, voices_data, source, loadCount, firstLoad, fs, now,
                   handled, ct_in, ct_out, earlier>>

Next ==
    \/ Startup
    \/ Tick
    \/ ReceiveInference
    \/ ReceiveGenerate
    \/ HandleInference
    \/ HandleGenerate
    \/ Close

Spec == Init /\ [][Next]_vars

-----------------------------------------------------------------------------
(* The catalog readers under a collaborator whose data changes: start-up,  *)
(* /voices, and synthesis requests that differ only in the voice           *)

InferenceProbes ==
    {InferenceRequest(TextHi, voice, ModelPath, None, DefaultTuning, FormatWAV,
                      "contentvec", None, FALSE, None) :
        voice \in {KnownVoice, VoiceFra.ShortName, UnknownVoice}}

GenerateProbes ==
    {[text |-> TextHi, tts_voice |-> voice, model_path |-> ModelPath,
      index_path |-> None, tts_rate |-> 0, return_base64 |-> TRUE,
      output_format |-> <<"O", "G", "G">>] :
        voice \in {KnownVoice, VoiceFra.ShortName, UnknownVoice}}

ReceiveInferenceProbe == \E body \in InferenceProbes : Receive("inference", body)

ReceiveGenerateProbe == \E body \in GenerateProbes : Receive("generate", body)

NextCatalog ==
    \/ Startup
    \/ SourceChanges
    \/ ListVoices
    \/ ReceiveInferenceProbe
    \/ ReceiveGenerateProbe
    \/ HandleInference
    \/ HandleGenerate
    \/ Close

SpecCatalog == Init /\ [][NextCatalog]_vars

-----------------------------------------------------------------------------
(* Two synthesis requests in a row on the same output directory *)

\* /tts/inference bodies that pass every pre-synthesis check and differ in
\* the fields that shape the output paths
PairBodies ==
    {InferenceRequest(TextHi, KnownVoice, ModelPath, None, DefaultTuning, format,
                      "contentvec", None, b64, name) :
        format \in {FormatWAV, FormatOgg},
        b64 \in BOOLEAN,
        name \in OutputFilenames}

\* the environment's answers with no index match and a pipeline that writes
\* the files it was asked for: it raises after the TTS stage or returns, and
\* either delete may fail
PairOracles ==
    {o \in CanonicalOracles :
        /\ o.match = None
        /\ o.reported = "rvc"
        /\ o.wroteTts
        /\ o.pipe = "return" => o.wroteOut
        /\ ~o.readFails}

InitPair ==
    /\ Init
    /\ Truthy(source)
    /\ source[1] # <<>>

ReceivePair ==
    /\ phase = "running"
    /\ inflight.stage = "idle"
    /\ \E body \in PairBodies :
          inflight' = [endpoint |-> "inference", stage |-> "received", body |-> body]
    /\ UNCHANGED <<phase, voices_data, source, loadCount, firstLoad, fs, now,
                   response, calls, fsBefore, handled, ct_in, ct_out, earlier>>

HandlePair ==
    /\ inflight.stage = "received"
    /\ \E o \in PairOracles :
          /\ Asked(inflight.body, o)
          /\ Complete(tts_inference(inflight.body, fs, voices_data, source, now, o))

\* the first response has been sent: its request, its pipeline call and the
\* file it handed to the caller by reference (if that file exists) are kept
ClosePair ==
    /\ inflight.stage = "done"
    /\ earlier = None
    /\ earlier' = Some([body |-> inflight.body,
                        calls |-> calls,
                        delivered |-> IF /\ response.status = 200
                                         /\ Truthy(response.output_path)
                                         /\ response.output_path[1] \in fs
                                      THEN response.output_path
                                      ELSE None])
    /\ inflight' = Idle
    /\ response' = NoResponse
    /\ calls' = <<>>
    /\ fsBefore' = fs
    /\ UNCHANGED <<phase, voices_data, source, loadCount, firstLoad, fs, now,
                   handled, ct_in, ct_out>>

NextPair ==
    \/ Startup
    \/ Tick
    \/ ReceivePair
    \/ HandlePair
    \/ ClosePair

SpecPair == InitPair /\ [][NextPair]_vars

-----------------------------------------------------------------------------
(* clean_text applied to every text of bounded length *)

InitClean ==
    /\ phase = "init"
    /\ voices_data = None
    /\ source = None
    /\ loadCount = 0
    /\ firstLoad = None
    /\ fs = {ModelPath, IndexPath}
    /\ now = 0
    /\ inflight = Idle
    /\ response = NoResponse
    /\ calls = <<>>
    /\ fsBefore = {ModelPath, IndexPath}
    /\ handled = 0
    /\ ct_in \in SeqsUpTo(TextAlphabet, MaxTextLen)
    /\ ct_out = None
    /\ earlier = None

ApplyCleanText ==
    /\ ct_out = None
    /\ ct_out' = Some(clean_text(ct_in))
    /\ UNCHANGED <<phase, voices_data, source, loadCount, firstLoad, fs, now,
                   inflight, response, calls, fsBefore, handled, ct_in, earlier>>

NextClean == ApplyCleanText

SpecClean == InitClean /\ [][NextClean]_vars

-----------------------------------------------------------------------------
(* Vocabulary of the properties *)

\* a synthesis exchange (either endpoint) has just been answered
SynthesisDone ==
    /\ inflight.stage = "done"
    /\ inflight.endpoint \in {"inference", "generate"}

\* the pipeline was invoked for the current exchange
PipelineInvoked == calls # <<>>

\* whether the current synthesis exchange asks for embedded output
WantsBase64 ==
    IF inflight.endpoint = "generate" THEN TRUE ELSE inflight.body.return_base64

\* the requested output format of the current synthesis exchange
RequestedFormat ==
    IF inflight.endpoint = "generate"
    THEN inflight.body.output_format
    ELSE inflight.body.export_format

\* /tts/generate rejects the body before it reaches tts_inference
RejectedByGenerate ==
    /\ inflight.endpoint = "generate"
    /\ \/ clean_text(inflight.body.text) = <<>>
       \/ Upper(inflight.body.output_format) \notin valid_formats

NothingTouched ==
    /\ ~PipelineInvoked
    /\ fs = fsBefore
    /\ voices_data = firstLoad

-----------------------------------------------------------------------------
(* C1 *)

\* C1 (as stated): every /tts/inference or /tts/generate request whose
\* model_path does not exist fails with HTTP 404 naming the path, before the
\* pipeline is invoked, leaving filesystem and catalog untouched.
C1_Original ==
    (SynthesisDone /\ inflight.body.model_path \notin fsBefore) =>
        /\ response.status = 404
        /\ response.detail = [reason |-> "ModelNotFound",
                              arg |-> inflight.body.model_path]
        /\ NothingTouched

\* C1 (amended): the same for every /tts/inference request and for every
\* /tts/generate request that passes that endpoint's own text and format
\* checks; a /tts/generate request that fails them is rejected with HTTP 400
\* instead, also before the pipeline is invoked and without side effects.
C1_ModelNotFound ==
    (SynthesisDone /\ inflight.body.model_path \notin fsBefore) =>
        /\ NothingTouched
        /\ IF RejectedByGenerate
           THEN response.status = 400
           ELSE /\ response.status = 404
                /\ response.detail = [reason |-> "ModelNotFound",
                                      arg |-> inflight.body.model_path]

C1_Witness ==
    /\ SynthesisDone
    /\ inflight.endpoint = "generate"
    /\ inflight.body.model_path \notin fsBefore
    /\ response.status = 404

-----------------------------------------------------------------------------
(* C2 *)

\* C2: a successful synthesis with return_base64=true carries the payload and
\* no file reference (output_file and output_path both empty), and the final
\* file is absent from disk, whatever the outcome of the delete step.
C2_Original ==
    (SynthesisDone /\ response.status = 200 /\ WantsBase64) =>
        /\ response.base64 # None
        /\ response.output_file = None
        /\ response.output_path = None
        /\ calls[1].output_file \notin fs

-----------------------------------------------------------------------------
(* C3 *)

\* C3: a successful synthesis with return_base64=false carries a file
\* reference and no payload, and the referenced file exists on disk when the
\* call returns, for every output_filename and every reported output path.
C3_Original ==
    (SynthesisDone /\ response.status = 200 /\ ~WantsBase64) =>
        /\ response.base64 = None
        /\ response.output_file # None
        /\ response.output_path # None
        /\ response.output_path[1] \in fs

-----------------------------------------------------------------------------
(* C4 *)

CustomEmbedderWithoutPath ==
    /\ inflight.stage = "done"
    /\ inflight.endpoint = "inference"
    /\ inflight.body.embedder_model = "custom"
    /\ ~Truthy(inflight.body.embedder_model_custom)

\* C4 (as stated): embedder_model = "custom" with an empty or missing
\* embedder_model_custom always yields HTTP 400, whatever the other fields.
C4_Original == CustomEmbedderWithoutPath => response.status = 400

\* C4 (amended): such a request is always rejected before the pipeline is
\* invoked; it yields HTTP 400 when the earlier checks pass (model file
\* exists, index path acceptable, tts_voice in the catalog), and the 404 of
\* the first failing earlier check otherwise.
C4_EmbedderRejected ==
    CustomEmbedderWithoutPath =>
        LET body == inflight.body
            reason == response.detail.reason
        IN /\ ~PipelineInvoked
           /\ fs = fsBefore
           /\ response.status \in {400, 404}
           /\ response.status = 400 <=> reason = "EmbedderCustomRequired"
           /\ reason \in {"EmbedderCustomRequired", "ModelNotFound",
                          "IndexNotFound", "VoiceNotFound"}
           /\ reason = "ModelNotFound" <=> body.model_path \notin fsBefore
           /\ (body.model_path \in fsBefore /\ Truthy(body.index_path)) =>
                 (reason = "IndexNotFound" <=> body.index_path[1] \notin fsBefore)
           /\ reason = "VoiceNotFound" => ~VoiceKnown(body.tts_voice, voices_data[1])
           /\ reason = "EmbedderCustomRequired" =>
                 VoiceKnown(body.tts_voice, voices_data[1])

C4_Witness ==
    /\ CustomEmbedderWithoutPath
    /\ inflight.body.embedder_model_custom = Some(<<>>)
    /\ response.status = 400

-----------------------------------------------------------------------------
(* C5 *)

\* the input read once, left to right: control characters dropped, each CRLF
\* pair and each CR not followed by LF turned into one newline
RECURSIVE OnePass(_)
OnePass(s) ==
    IF s = <<>> THEN <<>>
    ELSE IF s[1] = CR
         THEN IF Len(s) >= 2 /\ s[2] = LF
              THEN <<LF>> \o OnePass(SubSeq(s, 3, Len(s)))
              ELSE <<LF>> \o OnePass(Tail(s))
    ELSE IF s[1] \in ControlClass THEN OnePass(Tail(s))
    ELSE <<s[1]>> \o OnePass(Tail(s))

\* no character of 0x00-0x1F but newline and tab, no carriage return, no
\* leading or trailing whitespace
WellFormedText(out) ==
    /\ \A i \in 1..Len(out) : out[i] \in 0..31 => out[i] \in {LF, TAB}
    /\ \A i \in 1..Len(out) : out[i] # CR
    /\ out # <<>> => out[1] \notin Whitespace /\ out[Len(out)] \notin Whitespace

\* C5 (as stated): the output of clean_text is well formed, and every CRLF
\* pair and every bare CR of the input appears in it as a single newline
\* (unless trimmed).
C5_Original ==
    ct_out # None =>
        /\ WellFormedText(ct_out[1])
        /\ ct_out[1] = Strip(OnePass(ct_in))

\* C5 (amended): the output of clean_text is well formed, and every CRLF pair
\* and every bare CR of the text that remains once the control characters
\* are removed appears in it as a single newline (unless trimmed); a CR
\* separated from a following LF only by removed characters yields one
\* newline together with that LF, not two.
C5_CleanText ==
    ct_out # None =>
        /\ WellFormedText(ct_out[1])
        /\ ct_out[1] = Strip(OnePass(RemoveControl(ct_in)))

C5_Witness ==
    /\ ct_out # None
    /\ \E i \in 1..(Len(ct_in) - 1) : ct_in[i] = CR /\ ct_in[i + 1] = LF
    /\ \E i \in 1..Len(ct_in) : ct_in[i] = NUL
    /\ \E i \in 1..Len(ct_out[1]) : ct_out[1][i] = LF

-----------------------------------------------------------------------------
(* C6 *)

\* C6: load_voices_data is called at most once per process, the cached
\* catalog always equals the value of that first load, and every read
\* (/voices, /tts/inference, /tts/generate) answers from that value, also
\* when it is the empty catalog and the collaborator's data has changed.
C6_LoadedOnce ==
    /\ loadCount <= 1
    /\ voices_data # None => voices_data = firstLoad
    /\ phase = "running" => voices_data # None
    /\ (inflight.stage = "done" /\ inflight.endpoint = "voices") =>
          response = list_voices(firstLoad[1], inflight.body.language)
    /\ (SynthesisDone /\ ~RejectedByGenerate) =>
          /\ response.detail.reason = "VoiceNotFound" =>
                ~VoiceKnown(inflight.body.tts_voice, firstLoad[1])
          /\ PipelineInvoked => VoiceKnown(inflight.body.tts_voice, firstLoad[1])

C6_Witness ==
    /\ inflight.stage = "done"
    /\ inflight.endpoint = "voices"
    /\ firstLoad = Some(<<>>)
    /\ source \notin {None, firstLoad}
    /\ response.status = 200
    /\ response.total = 0

-----------------------------------------------------------------------------
(* C7 *)

\* C7: every successful /tts/generate response has success=true, a payload,
\* no output_path and the upper-cased requested format as its tag, whatever
\* the request's return_base64; the pipeline receives the fixed defaults.
C7_GenerateShape ==
    (inflight.stage = "done" /\ inflight.endpoint = "generate"
        /\ response.status = 200) =>
        /\ response.success
        /\ response.base64 # None
        /\ response.output_path = None
        /\ response.format = Some(Upper(inflight.body.output_format))
        /\ Len(calls) = 1
        /\ LET a == calls[1].args
           IN /\ a.pitch = 0
              /\ a.index_rate = 75
              /\ a.volume_envelope = 100
              /\ a.protect = 50
              /\ a.f0_method = "rmvpe"
              /\ ~a.split_audio /\ ~a.f0_autotune /\ ~a.proposed_pitch /\ ~a.clean_audio
              /\ a.embedder_model = "contentvec"
              /\ a.embedder_model_custom = None
              /\ a.sid = 0
              /\ a.export_format = Upper(inflight.body.output_format)
              /\ a.tts_voice = inflight.body.tts_voice
              /\ a.pth_path = inflight.body.model_path
              /\ a.tts_rate = inflight.body.tts_rate

C7_Witness ==
    /\ inflight.stage = "done"
    /\ inflight.endpoint = "generate"
    /\ response.status = 200
    /\ ~inflight.body.return_base64
    /\ inflight.body.output_format = FormatOgg

-----------------------------------------------------------------------------
(* C8 *)

\* C8: a synthesis request whose format is outside {WAV, MP3, FLAC, OGG, M4A}
\* (compared case-insensitively) is rejected (with the validation error, or
\* with the error of a check that fails before the format is looked at), and
\* the pipeline is never invoked with an export format outside the set.
C8_Original ==
    SynthesisDone =>
        /\ Upper(RequestedFormat) \notin valid_formats =>
              response.status \in {400, 404} /\ ~PipelineInvoked
        /\ \A i \in 1..Len(calls) :
              Upper(calls[i].args.export_format) \in valid_formats

-----------------------------------------------------------------------------
(* C9 *)

\* a pre-synthesis check of the current exchange fails on the request as
\* received (the resolver's answer aside)
ValidationFails ==
    \/ RejectedByGenerate
    \/ inflight.body.model_path \notin fsBefore
    \/ Truthy(inflight.body.index_path) /\ inflight.body.index_path[1] \notin fsBefore
    \/ ~VoiceKnown(inflight.body.tts_voice, voices_data[1])
    \/ /\ inflight.endpoint = "inference"
       /\ inflight.body.embedder_model = "custom"
       /\ ~Truthy(inflight.body.embedder_model_custom)

\* C9: when the pipeline call raises, or returns while the file it reports
\* is absent, the request ends with HTTP 500 and no success result; a 400 or
\* 404 raised by a validation step keeps its status.
C9_SynthesisErrors ==
    SynthesisDone =>
        /\ (PipelineInvoked /\ (calls[1].raised \/ ~calls[1].output_exists)) =>
              response.status = 500 /\ ~response.success
        /\ ValidationFails =>
              response.status \in {400, 404} /\ ~response.success
        /\ response.status \in {400, 404} => ~PipelineInvoked

C9_Witness ==
    /\ SynthesisDone
    /\ PipelineInvoked
    /\ ~calls[1].raised
    /\ ~calls[1].output_exists
    /\ response.status = 500

-----------------------------------------------------------------------------
(* C10 *)

RECURSIVE ByLocale(_, _)
ByLocale(voices, language) ==
    IF voices = <<>> THEN <<>>
    ELSE IF Contains(Lower(Get(voices[1], "Locale")), Lower(language))
         THEN <<VoiceInfo(voices[1])>> \o ByLocale(Tail(voices), language)
    ELSE ByLocale(Tail(voices), language)

\* C10: GET /voices with a non-empty filter returns exactly the catalog
\* entries whose locale contains the filter (case-insensitively), in catalog
\* order, with total equal to their number; without a filter, the whole
\* catalog.
C10_Original ==
    (inflight.stage = "done" /\ inflight.endpoint = "voices"
        /\ response.status = 200) =>
        LET language == inflight.body.language
            catalog == voices_data[1]
        IN /\ response.total = Len(response.voices)
           /\ response.voices =
                 IF Truthy(language)
                 THEN ByLocale(catalog, language[1])
                 ELSE [i \in 1..Len(catalog) |-> VoiceInfo(catalog[i])]

-----------------------------------------------------------------------------
(* C11 *)

\* the intermediate TTS path handed to the pipeline by the current exchange
IntermediatePath == calls[1].args.output_tts_path

\* C11 (as stated): every request that invoked the pipeline, whatever its
\* outcome, attempts to delete the intermediate TTS file before it ends, so
\* that unless the delete itself failed the intermediate file is absent from
\* disk once the request has finished.
C11_Original ==
    (SynthesisDone /\ PipelineInvoked) =>
        /\ calls[1].tts_cleanup # "skipped"
        /\ calls[1].tts_cleanup # "failed" => IntermediatePath \notin fs

-----------------------------------------------------------------------------
(* C12 *)

\* the text handed to the pipeline by the current exchange
PipelineText == calls[1].args.tts_text

\* C12 (as stated): for either endpoint, the text passed to the pipeline is
\* clean_text of the text the user supplied, holds no disallowed control
\* character and no carriage return, and is not empty; a text that is empty
\* once cleaned is rejected before synthesis (with HTTP 400, or with the 404
\* of an earlier failing check).
C12_Original ==
    SynthesisDone =>
        /\ PipelineInvoked =>
              /\ PipelineText = clean_text(inflight.body.text)
              /\ \A i \in 1..Len(PipelineText) :
                    /\ PipelineText[i] \in 0..31 => PipelineText[i] \in {LF, TAB}
                    /\ PipelineText[i] # CR
              /\ PipelineText # <<>>
        /\ clean_text(inflight.body.text) = <<>> =>
              ~PipelineInvoked /\ response.status \in {400, 404}

-----------------------------------------------------------------------------
(* C13 *)

\* the pre-synthesis checks as they read on the arguments of a pipeline call:
\* the model file exists, the index is empty or exists (and is the caller's
\* when the caller gave one), the voice is the ShortName of a catalog entry,
\* a custom embedder comes with its path
ChecksPassed(args) ==
    /\ args.pth_path \in fsBefore
    /\ args.index_path = <<>> \/ args.index_path \in fsBefore
    /\ Truthy(inflight.body.index_path) =>
          args.index_path = inflight.body.index_path[1]
    /\ \E i \in 1..Len(voices_data[1]) :
          voices_data[1][i].ShortName = args.tts_voice
    /\ args.embedder_model = "custom" => Truthy(args.embedder_model_custom)

\* C13: within one request the pipeline is invoked at most once, and only
\* after the model, index, voice and embedder checks have passed; a request
\* that fails one of them ends in a 400 or 404 failure with no pipeline call
\* and no file created or deleted.
C13_ChecksBeforePipeline ==
    SynthesisDone =>
        /\ Len(calls) <= 1
        /\ PipelineInvoked => ChecksPassed(calls[1].args)
        /\ (ValidationFails \/ response.status \in {400, 404}) =>
              /\ ~PipelineInvoked
              /\ ~response.success
              /\ response.status \in {400, 404}
              /\ fs = fsBefore

C13_Witness ==
    /\ SynthesisDone
    /\ Len(calls) = 1
    /\ Truthy(inflight.body.index_path)
    /\ calls[1].args.index_path = IndexPath
    /\ response.status = 200

-----------------------------------------------------------------------------
(* C14 *)

\* the first exchange and the current one both invoked the pipeline
BothSynthesized ==
    /\ earlier # None
    /\ earlier[1].calls # <<>>
    /\ SynthesisDone
    /\ PipelineInvoked

\* the timestamps derived by the two requests differ
TimestampsDiffer == earlier[1].calls[1].timestamp # calls[1].timestamp

IntermediatePathsDiffer ==
    earlier[1].calls[1].args.output_tts_path # calls[1].args.output_tts_path

FinalPathsDiffer ==
    earlier[1].calls[1].args.output_rvc_path # calls[1].args.output_rvc_path

\* C14 (as stated): two requests whose derived timestamps differ use
\* distinct intermediate TTS paths and distinct final output paths, whatever
\* their other parameters, a caller-supplied output_filename included.
C14_Original ==
    (BothSynthesized /\ TimestampsDiffer) =>
        IntermediatePathsDiffer /\ FinalPathsDiffer

\* C14 (amended): two requests whose derived timestamps differ use distinct
\* intermediate TTS paths whatever their other parameters, and distinct final
\* output paths when neither of them supplies an output_filename.
C14_DistinctPaths ==
    (BothSynthesized /\ TimestampsDiffer) =>
        /\ IntermediatePathsDiffer
        /\ (/\ ~Truthy(earlier[1].body.output_filename)
            /\ ~Truthy(inflight.body.output_filename)) => FinalPathsDiffer

C14_Witness ==
    /\ BothSynthesized
    /\ TimestampsDiffer
    /\ ~Truthy(earlier[1].body.output_filename)
    /\ ~Truthy(inflight.body.output_filename)
    /\ earlier[1].body.export_format = inflight.body.export_format
    /\ FinalPathsDiffer

-----------------------------------------------------------------------------
(* C15 *)

\* p is OUTPUT_DIR, one separator and one name that is neither "." nor ".."
\* and holds no separator
DirectChild(p) ==
    /\ StartsWith(p, OUTPUT_DIR \o <<SEP>>)
    /\ LET name == SubSeq(p, Len(OUTPUT_DIR) + 2, Len(p))
       IN /\ name \notin {<<>>, <<".">>, <<".", ".">>}
          /\ \A i \in 1..Len(name) : name[i] # SEP

\* C15 (as stated): for every caller-supplied output_filename, the
\* intermediate and the final path handed to the pipeline are direct children
\* of the output directory, and so is every file of the earlier filesystem
\* that the handler deleted.
C15_Original ==
    (SynthesisDone /\ PipelineInvoked) =>
        /\ DirectChild(calls[1].args.output_tts_path)
        /\ DirectChild(calls[1].args.output_rvc_path)
        /\ \A p \in fsBefore \ fs : DirectChild(p)

-----------------------------------------------------------------------------
(* C16 *)

\* C16 (as stated): a request with an explicit, non-empty index_path that
\* does not exist fails with HTTP 404 before synthesis; a request whose
\* index_path is null or empty never fails with the index-not-found error,
\* whatever the resolver returns.
C16_Original ==
    (SynthesisDone /\ ~RejectedByGenerate) =>
        /\ (/\ Truthy(inflight.body.index_path)
            /\ inflight.body.index_path[1] \notin fsBefore) =>
              response.status = 404 /\ ~PipelineInvoked
        /\ ~Truthy(inflight.body.index_path) =>
              response.detail.reason # "IndexNotFound"

-----------------------------------------------------------------------------
(* C17 *)

\* C17 (as stated): a final file that a completed return_base64=false
\* request returned as a file reference is never deleted by the handling of
\* another request.
C17_Original ==
    (earlier # None /\ earlier[1].delivered # None) =>
        earlier[1].delivered[1] \in fs

====
